---------------------------- MODULE Spec2Model ----------------------------
(***************************************************************************)
(* A model of the file upload service: the in-memory metadata index        *)
(* (services/fileService.js), the object-store gateway                     *)
(* (services/s3Service.js) and the request handlers of the upload and file *)
(* controllers (listed at the end of README.md).                           *)
(*                                                                         *)
(* Node runs every handler on one thread: a handler runs without           *)
(* interruption from one `await` to the next, so each action below is one  *)
(* such run-to-completion segment of one request, and requests interleave  *)
(* only at their awaits.  A call to the object store or to the local disk  *)
(* is one step that nondeterministically succeeds or fails.                *)
(***************************************************************************)
EXTENDS Integers, Sequences, FiniteSets, TLC

\* ------------------------------------------------------------------ bounds
\* Concurrent requests in flight at once.
NumReqs == 2
\* The load the service accepts in one run: every request counts for one,
\* a batch for one per file it carries.
MaxLoad == 3
\* Ticks of the wall clock.
MaxClock == 1
\* Ticks of the wall clock in 24 hours.
TicksPerDay == 1

Reqs == 1..NumReqs
\* Every identifier is drawn for a file or a request counted in the load.
FileIds == 1..MaxLoad
\* The ids a client may ask for: those drawn so far and one never drawn.
KnownIds(next) == { id \in FileIds : id <= next }

\* --------------------------------------------------------- program constants
\* lastAccessed: null
NoDate == -1
\* getPresignedUrl(result.key, 3600)
UploadUrlTtl == 3600
\* const { expires = 86400 } = req.query
DefaultShareExpires == 86400

\* req.userId || 'anonymous'
Anonymous == "anonymous"

\* The files a client may send: multer's view of an upload (originalname,
\* mimetype, size) and, as `sniff`, what FileType.fromFile detects in its
\* bytes ("none": no signature recognised, as for plain text).
InputFiles ==
    { [originalname |-> "notes.txt", mimetype |-> "text/plain", size |-> 10, sniff |-> "none"],
      [originalname |-> "fake.png",  mimetype |-> "image/png",  size |-> 20, sniff |-> "application/pdf"],
      [originalname |-> "Photo.PNG", mimetype |-> "image/png",  size |-> 30, sniff |-> "image/png"] }

\* req.files: the non-empty batches within the bound.
RECURSIVE SeqsUpTo(_, _)
SeqsUpTo(S, n) ==
    IF n = 0 THEN { <<>> }
    ELSE LET shorter == SeqsUpTo(S, n - 1)
         IN  shorter \cup { Append(s, x) : s \in { t \in shorter : Len(t) = n - 1 }, x \in S }

\* upload.array('files', 5)
MaxFiles == 5
\* The defaults of listFiles' page and limit query parameters.
DefaultPage == 1
DefaultLimit == 20
Batches(room) ==
    { b \in SeqsUpTo(InputFiles, IF room < MaxFiles THEN room ELSE MaxFiles) : Len(b) >= 1 }

\* --------------------------------------------------- a JavaScript Map
\* A Map is the sequence of its <<key, value>> entries in insertion order.
MapKeys(m) == { m[i][1] : i \in 1..Len(m) }
MapHas(m, k) == k \in MapKeys(m)
MapIndex(m, k) == CHOOSE i \in 1..Len(m) : m[i][1] = k
MapGet(m, k) == m[MapIndex(m, k)][2]
\* Map.prototype.set: a present key keeps its place, a new one goes last.
MapSet(m, k, v) ==
    IF MapHas(m, k) THEN [m EXCEPT ![MapIndex(m, k)] = <<k, v>>]
    ELSE Append(m, <<k, v>>)
\* Map.prototype.delete
MapDelete(m, k) == SelectSeq(m, LAMBDA e : e[1] # k)


\* ------------------------------------------------------------- the state
VARIABLES
    files,          \* FileService.files: Map fileId -> record
    shareActivity,  \* FileService.shareActivity: Map fileId -> entries
    store,          \* the bucket: the objects the object store holds
    now,            \* the wall clock, new Date()
    nextId,         \* the next identifier uuidv4() returns
    req,            \* the requests in flight, one per slot
    response,       \* the response the last step sent, if it sent one
    s3Deleted,      \* history: fileIds whose object a deleteFile has deleted
    metaDeleted,    \* history: fileIds whose record a deleteFile has removed
    accessCalls,    \* history: accesses counted on each record in the index
    call,           \* the last call made on the FileService directly
    started         \* the load accepted so far

vars == << files, shareActivity, store, now, nextId, req, response,
           s3Deleted, metaDeleted, accessCalls, call, started >>

\* ------------------------------------------- services/fileService.js
\* saveFileMetadata: the record stored under metadata.fileId.
NewFileRecord(metadata, t) ==
    [ fileId       |-> metadata.fileId,
      originalName |-> metadata.originalName,
      mimeType     |-> metadata.mimeType,
      size         |-> metadata.size,
      s3Key        |-> metadata.s3Key,
      userId       |-> metadata.userId,
      uploadedAt   |-> metadata.uploadedAt,
      createdAt    |-> t,
      updatedAt    |-> t,
      accessCount  |-> 0,
      lastAccessed |-> NoDate ]

saveFileMetadata(fs, metadata, t) ==
    MapSet(fs, metadata.fileId, NewFileRecord(metadata, t))

\* getFileMetadata returns null for an unknown fileId: callers test
\* `!metadata`, modelled by asking hasFileMetadata first.
hasFileMetadata(fs, fileId) == MapHas(fs, fileId)
getFileMetadata(fs, fileId) == MapGet(fs, fileId)

\* updateAccessStats that leaves updatedAt as it was.
updateAccessStats_KeepsUpdatedAt(fs, fileId, t) ==
    IF MapHas(fs, fileId)
    THEN LET metadata == MapGet(fs, fileId)
         IN  MapSet(fs, fileId,
                    [metadata EXCEPT !.accessCount  = metadata.accessCount + 1,
                                     !.lastAccessed = t])
    ELSE fs

\* updateAccessStats counting from nothing instead of from the record's count.
updateAccessStats_FromZero(fs, fileId, t) ==
    IF MapHas(fs, fileId)
    THEN MapSet(fs, fileId, [MapGet(fs, fileId) EXCEPT !.accessCount  = 1,
                                                       !.lastAccessed = t,
                                                       !.updatedAt    = t])
    ELSE fs

updateAccessStats(fs, fileId, t) ==
    IF MapHas(fs, fileId)
    THEN LET metadata == MapGet(fs, fileId)
         IN  MapSet(fs, fileId,
                    [metadata EXCEPT !.accessCount  = metadata.accessCount + 1,
                                     !.lastAccessed = t,
                                     !.updatedAt    = t])
    ELSE fs

\* deleteFileMetadata: what files.delete(fileId) returns, and the two maps
\* afterwards (accessStats is never written, so its delete does nothing).
\* deleteFileMetadata that reports a removal whatever files.delete returned.
deleteFileMetadataResult_AlwaysTrue(fs, fileId) == TRUE
\* deleteFileMetadata that forgets the share-activity log.
deleteFileMetadataShares_Kept(sa, fileId) == sa
deleteFileMetadataResult(fs, fileId) == MapHas(fs, fileId)
deleteFileMetadataFiles(fs, fileId) == MapDelete(fs, fileId)
deleteFileMetadataShares(sa, fileId) == MapDelete(sa, fileId)

logShareActivity(sa, fileId, expiresIn, t) ==
    LET activity == IF MapHas(sa, fileId) THEN MapGet(sa, fileId) ELSE <<>>
        entry    == [ sharedAt  |-> t,
                      expiresIn |-> expiresIn,
                      expiresAt |-> t + expiresIn * 1000 ]
    IN  MapSet(sa, fileId, Append(activity, entry))

\* String.prototype.includes
includes(str, searchString) ==
    \E i \in 1..(Len(str) - Len(searchString) + 1) :
        SubSeq(str, i, i + Len(searchString) - 1) = searchString

\* String.prototype.toLowerCase, letter by letter.
LowerOf(c) ==
    CASE c = "A" -> "a" [] c = "B" -> "b" [] c = "C" -> "c" [] c = "D" -> "d"
      [] c = "E" -> "e" [] c = "F" -> "f" [] c = "G" -> "g" [] c = "H" -> "h"
      [] c = "I" -> "i" [] c = "J" -> "j" [] c = "K" -> "k" [] c = "L" -> "l"
      [] c = "M" -> "m" [] c = "N" -> "n" [] c = "O" -> "o" [] c = "P" -> "p"
      [] c = "Q" -> "q" [] c = "R" -> "r" [] c = "S" -> "s" [] c = "T" -> "t"
      [] c = "U" -> "u" [] c = "V" -> "v" [] c = "W" -> "w" [] c = "X" -> "x"
      [] c = "Y" -> "y" [] c = "Z" -> "z" [] OTHER -> c

RECURSIVE toLowerCase(_)
toLowerCase(str) ==
    IF Len(str) = 0 THEN ""
    ELSE LowerOf(SubSeq(str, 1, 1)) \o toLowerCase(SubSeq(str, 2, Len(str)))

\* Array.from(this.files.values())
MapValues(m) == [i \in 1..Len(m) |-> m[i][2]]

\* A sort that puts an element ahead of those uploaded at the same time.
SortInsert_AheadOfTies(sorted, file) ==
    LET k == Cardinality({ i \in 1..Len(sorted) : sorted[i].uploadedAt > file.uploadedAt })
    IN  SubSeq(sorted, 1, k) \o << file >> \o SubSeq(sorted, k + 1, Len(sorted))

\* Array.prototype.sort with (a, b) => b.uploadedAt - a.uploadedAt: the sort
\* is stable, so an element goes behind those that are not older than it.
SortInsert(sorted, file) ==
    LET k == Cardinality({ i \in 1..Len(sorted) : sorted[i].uploadedAt >= file.uploadedAt })
    IN  SubSeq(sorted, 1, k) \o << file >> \o SubSeq(sorted, k + 1, Len(sorted))

RECURSIVE SortNewestFirst(_)
SortNewestFirst(list) ==
    IF list = << >> THEN << >>
    ELSE SortInsert(SortNewestFirst(SubSeq(list, 1, Len(list) - 1)), list[Len(list)])

\* A slice that takes the element at `end` too.
Slice_OneMore(list, start, end) ==
    SubSeq(list, start + 1, IF end + 1 < Len(list) THEN end + 1 ELSE Len(list))

\* Array.prototype.slice(start, end)
Slice(list, start, end) ==
    SubSeq(list, start + 1, IF end < Len(list) THEN end ELSE Len(list))

\* Math.floor in the place of Math.ceil.
CeilDiv_Floor(total, limit) == total \div limit

\* Math.ceil(total / limit) for limit >= 1
CeilDiv(total, limit) == (total + limit - 1) \div limit

\* An entry of the listing.
ListItem(file) ==
    [ fileId |-> file.fileId, filename |-> file.originalName, mimeType |-> file.mimeType,
      size |-> file.size, uploadedAt |-> file.uploadedAt,
      accessCount |-> file.accessCount, lastAccessed |-> file.lastAccessed ]

\* listFiles keeping the files that pass either filter.
listFiles_EitherFilter(fs, page, limit, type, search) ==
    LET all      == MapValues(fs)
        found    == SelectSeq(all, LAMBDA file :
                        \/ type = "" /\ search = ""
                        \/ type # "" /\ includes(file.mimeType, type)
                        \/ search # "" /\ includes(toLowerCase(file.originalName),
                                                   toLowerCase(search)))
        sorted   == SortNewestFirst(found)
        total    == Len(sorted)
        paginatedFiles == Slice(sorted, (page - 1) * limit, (page - 1) * limit + limit)
        pages    == CeilDiv(total, limit)
    IN  [ files |-> [i \in 1..Len(paginatedFiles) |-> ListItem(paginatedFiles[i])],
          page |-> page, limit |-> limit, total |-> total, pages |-> pages,
          hasNext |-> page < pages, hasPrev |-> page > 1 ]

\* listFiles; a filter that is the empty string is no filter.
listFiles(fs, page, limit, type, search) ==
    LET all      == MapValues(fs)
        typed    == IF type # "" THEN SelectSeq(all, LAMBDA file : includes(file.mimeType, type))
                    ELSE all
        found    == IF search # ""
                    THEN SelectSeq(typed, LAMBDA file :
                             includes(toLowerCase(file.originalName), toLowerCase(search)))
                    ELSE typed
        sorted   == SortNewestFirst(found)
        total    == Len(sorted)
        startIndex == (page - 1) * limit
        endIndex == startIndex + limit
        paginatedFiles == Slice(sorted, startIndex, endIndex)
        pages    == CeilDiv(total, limit)
    IN  [ files |-> [i \in 1..Len(paginatedFiles) |-> ListItem(paginatedFiles[i])],
          page |-> page, limit |-> limit, total |-> total, pages |-> pages,
          hasNext |-> page < pages, hasPrev |-> page > 1 ]

\* String.prototype.startsWith
startsWith(str, searchString) ==
    /\ Len(str) >= Len(searchString)
    /\ SubSeq(str, 1, Len(searchString)) = searchString

getFileCategory(mimeType) ==
    IF startsWith(mimeType, "image/") THEN "images"
    ELSE IF startsWith(mimeType, "video/") THEN "videos"
    ELSE IF startsWith(mimeType, "audio/") THEN "audio"
    ELSE IF includes(mimeType, "pdf") THEN "documents"
    ELSE IF includes(mimeType, "text/") THEN "text"
    ELSE IF includes(mimeType, "application/") THEN "applications"
    ELSE "other"

\* files.reduce((sum, file) => sum + (file.size || 0), 0)
RECURSIVE SumSizes(_)
SumSizes(list) ==
    IF list = << >> THEN 0 ELSE SumSizes(SubSeq(list, 1, Len(list) - 1)) + list[Len(list)].size

\* files.reduce((sum, file) => sum + (file.accessCount || 0), 0)
RECURSIVE SumAccesses(_)
SumAccesses(list) ==
    IF list = << >> THEN 0
    ELSE SumAccesses(SubSeq(list, 1, Len(list) - 1)) + list[Len(list)].accessCount

\* RoundDiv as Math.floor would have it.
RoundDiv_Floor(total, count) == total \div count

\* Math.round(total / count) for total >= 0 and count > 0: halves go up.
RoundDiv(total, count) == (2 * total + count) \div (2 * count)

\* CategoriesOf when the loops skip the files that fall through to `other`.
CategoriesOf_WithoutOther(list) ==
    { getFileCategory(list[i].mimeType) : i \in 1..Len(list) } \ { "other" }

\* The categories the forEach loops of getUploadStats make a key for.
CategoriesOf(list) == { getFileCategory(list[i].mimeType) : i \in 1..Len(list) }
InCategory(list, category) ==
    SelectSeq(list, LAMBDA file : getFileCategory(file.mimeType) = category)

\* getUploadStats at time t; a day is TicksPerDay ticks of the clock.
getUploadStats(fs, t) ==
    LET list          == MapValues(fs)
        totalFiles    == Len(list)
        totalSize     == SumSizes(list)
        totalAccesses == SumAccesses(list)
        oneDayAgo     == t - TicksPerDay
    IN  [ overview |->
            [ totalFiles    |-> totalFiles,
              totalSize     |-> totalSize,
              totalAccesses |-> totalAccesses,
              recentUploads |-> Len(SelectSeq(list, LAMBDA file : file.uploadedAt > oneDayAgo)) ],
          distribution |->
            [ byType        |-> [c \in CategoriesOf(list) |-> Len(InCategory(list, c))],
              storageByType |-> [c \in CategoriesOf(list) |-> SumSizes(InCategory(list, c))] ],
          averages |->
            [ fileSize        |-> IF totalFiles > 0 THEN RoundDiv(totalSize, totalFiles) ELSE 0,
              accessesPerFile |-> IF totalFiles > 0 THEN RoundDiv(totalAccesses, totalFiles)
                                  ELSE 0 ],
          timestamp |-> t ]

\* exportData: the entries of the three maps (accessStats is never written)
\* and the time of the export.
exportData(fs, sa, t) ==
    [ files |-> fs, accessStats |-> << >>, shareActivity |-> sa, exportedAt |-> t ]

\* --------------------------------------------- services/s3Service.js
\* The key made of the owner and the file's name only.
UploadKey_WithoutFileId(userId, fileId, originalname) == << "uploads", userId, originalname >>

\* const key = `uploads/${userId}/${fileId}-${file.originalname}`
UploadKey(userId, fileId, originalname) == << "uploads", userId, fileId, originalname >>
\* const key = `uploads/${fileId}-${filename}` (the direct-to-S3 route)
DirectKey(fileId, filename) == << "uploads", fileId, filename >>
NoKey == << >>

\* The type check of uploadFile: a detected type that differs from the
\* declared one.
TypeMismatch(file) == file.sniff # "none" /\ file.sniff # file.mimetype
\* file.mimetype.startsWith('image/') && file.mimetype !== 'image/gif'
IsImagePrefix(mimetype) ==
    mimetype \in { "image/png", "image/jpeg", "image/webp", "image/gif" }
Optimizable(file) == IsImagePrefix(file.mimetype) /\ file.mimetype # "image/gif"

StoreKeys(st) == { o.Key : o \in st }
\* s3.upload: the object under Key is replaced.
S3Put(st, key, body, contentType) ==
    { o \in st : o.Key # key } \cup { [Key |-> key, Body |-> body, ContentType |-> contentType] }
\* s3.deleteObject: deleting an absent key succeeds too.
S3Delete(st, key) == { o \in st : o.Key # key }

\* The errors the services raise: new AppError(message, statusCode).
AppError(message, statusCode) == [message |-> message, statusCode |-> statusCode]
NoError == AppError("", 0)
\* uploadFile's catch wraps whatever was thrown inside its try.
UploadFailed(cause) == AppError(cause, 500)

\* ------------------------------------------------------ a request
\* What a handler keeps of the record getFileMetadata returned (the fields
\* it reads after its awaits; none of them is ever rewritten in place).
MetaOf(rec) ==
    [ fileId |-> rec.fileId, s3Key |-> rec.s3Key, originalName |-> rec.originalName,
      mimeType |-> rec.mimeType, size |-> rec.size, uploadedAt |-> rec.uploadedAt ]
NoMeta ==
    [ fileId |-> 0, s3Key |-> NoKey, originalName |-> "", mimeType |-> "",
      size |-> 0, uploadedAt |-> NoDate ]

\* req.query of a listing request: strings, or Undefined for a parameter
\* that is not in the URL.
Undefined == "undefined"
NoQuery == [ page |-> Undefined, limit |-> Undefined, type |-> Undefined, search |-> Undefined ]

\* parseInt of a string of decimal digits.
DigitValue(c) == CHOOSE d \in 0..9 : SubSeq("0123456789", d + 1, d + 1) = c
RECURSIVE parseInt(_)
parseInt(str) ==
    IF Len(str) = 1 THEN DigitValue(str)
    ELSE 10 * parseInt(SubSeq(str, 1, Len(str) - 1)) + DigitValue(SubSeq(str, Len(str), Len(str)))

\* A slot holding no request has kind "none".  Of a request: its handler
\* (kind), where it is suspended (pc), req.file/req.files (files), the
\* identifiers uuidv4() gives it (ids), the batch loop's position (idx),
\* req.params.fileId, the Body and result.key of uploadFile, fileMetadata,
\* req.query.expires, the batch's uploadedFiles/failedFiles, the error
\* caught, and the positions of the temp files fs.unlink was called on.
NoReq ==
    [ kind |-> "none", pc |-> "none", files |-> << >>, ids |-> << >>, idx |-> 0,
      fileId |-> 0, body |-> "none", key |-> NoKey, meta |-> NoMeta, expires |-> 0,
      uploaded |-> << >>, failed |-> << >>, error |-> NoError, unlinked |-> {},
      query |-> NoQuery ]

\* A slot is free for a new request while the service accepts any.
Free(r) == req[r].kind = "none" /\ started < MaxLoad
CurFile(q) == q.files[q.idx]
CurId(q) == q.ids[q.idx]

\* What a request answers: res.status(..).json(data), or next(error), whose
\* statusCode is the response's status.  The request's kind, inputs and
\* temp-file removals are kept with it.
Reply(q, status, error, data) ==
    [ kind |-> q.kind, fileId |-> q.fileId, files |-> q.files, ids |-> q.ids,
      status |-> status, error |-> error, data |-> data, unlinked |-> q.unlinked,
      query |-> q.query ]
NoResponse == Reply(NoReq, 0, NoError, << >>)
Json(q, status, data) == Reply(q, status, NoError, data)
NextError(q, err) == Reply(q, err.statusCode, err, << >>)

\* The entry of the upload response for the current file.
UploadResult(q) ==
    [ fileId |-> CurId(q), filename |-> CurFile(q).originalname,
      mimeType |-> CurFile(q).mimetype, size |-> CurFile(q).size,
      url |-> q.key, presignedUrl |-> << q.key, UploadUrlTtl >>,
      uploadedAt |-> q.meta.uploadedAt ]

\* The metadata with the detected type in place of the declared one.
UploadMetadata_Detected(q, t) ==
    [ fileId |-> CurId(q), originalName |-> CurFile(q).originalname,
      mimeType |-> CurFile(q).sniff, size |-> CurFile(q).size,
      s3Key |-> q.key, userId |-> Anonymous, uploadedAt |-> t ]

\* The metadata both upload handlers pass to saveFileMetadata.
UploadMetadata(q, t) ==
    [ fileId |-> CurId(q), originalName |-> CurFile(q).originalname,
      mimeType |-> CurFile(q).mimetype, size |-> CurFile(q).size,
      s3Key |-> q.key, userId |-> Anonymous, uploadedAt |-> t ]

\* Throw when a file's error leaves the batch loop for the outer catch.
Throw_AbortsBatch(q, err) == [q EXCEPT !.error = err, !.pc = "unlink_err"]

\* Throw when the batch puts a failed file at the head of failedFiles.
Throw_Unshift(q, err) ==
    IF q.kind = "uploadSingle"
    THEN [q EXCEPT !.error = err, !.pc = "unlink_err"]
    ELSE [q EXCEPT !.error = err,
                   !.failed = << [filename |-> CurFile(q).originalname,
                                  error |-> err.message] >> \o @,
                   !.pc = "unlink_item"]

\* An error thrown while the current file is processed.  uploadSingle's
\* catch removes the temp file and then calls next(error); uploadMultiple's
\* inner catch records the file as failed and then removes its temp file.
Throw(q, err) ==
    IF q.kind = "uploadSingle"
    THEN [q EXCEPT !.error = err, !.pc = "unlink_err"]
    ELSE [q EXCEPT !.error = err,
                   !.failed = Append(@, [filename |-> CurFile(q).originalname,
                                         error |-> err.message]),
                   !.pc = "unlink_item"]

\* A step of request r that goes on (to q) or answers (with resp).
Goes(r, q) == req' = [req EXCEPT ![r] = q] /\ response' = NoResponse
Answers(r, resp) == req' = [req EXCEPT ![r] = NoReq] /\ response' = resp

\* The variables a handler step leaves alone.
Index == << files, shareActivity >>
History == << s3Deleted, metaDeleted, accessCalls >>

\* ------------------------------------------- UploadController (README.md)
\* uploadSingle, up to its first await: the file is there, an id is drawn
\* and uploadFile starts reading the temp file.
StartUploadSingle(r, file) ==
    /\ Free(r)
    /\ now' = now + 1
    /\ started' = started + 1
    /\ Goes(r, [NoReq EXCEPT !.kind = "uploadSingle", !.pc = "sniff",
                             !.files = << file >>, !.ids = << nextId >>, !.idx = 1])
    /\ nextId' = nextId + 1
    /\ UNCHANGED << Index, store, History, call >>

\* uploadSingle without req.file: 400, and no temp file to remove.
UploadSingleNoFile(r) ==
    /\ Free(r)
    /\ now' = now + 1
    /\ started' = started + 1
    /\ Answers(r, NextError([NoReq EXCEPT !.kind = "uploadSingle"],
                            AppError("No file provided", 400)))
    /\ UNCHANGED << Index, store, nextId, History, call >>

\* uploadMultiple, up to the first await of its first file.  uuidv4() is
\* called once per file as the loop reaches it; the values are random and
\* do not depend on when they are drawn, so they are drawn here.
StartUploadMultiple(r, batch) ==
    /\ Free(r)
    /\ now' = now + 1
    /\ started' = started + Len(batch)
    /\ Goes(r, [NoReq EXCEPT !.kind = "uploadMultiple", !.pc = "sniff",
                             !.files = batch,
                             !.ids = [i \in 1..Len(batch) |-> nextId + i - 1],
                             !.idx = 1])
    /\ nextId' = nextId + Len(batch)
    /\ UNCHANGED << Index, store, History, call >>

\* uploadMultiple without files: 400 through the outer catch.
UploadMultipleNoFiles(r) ==
    /\ Free(r)
    /\ now' = now + 1
    /\ started' = started + 1
    /\ Answers(r, NextError([NoReq EXCEPT !.kind = "uploadMultiple"],
                            AppError("No files provided", 400)))
    /\ UNCHANGED << Index, store, nextId, History, call >>

\* The type check that only logs a mismatch and goes on.
UploadFile_Sniff_LogOnly(r) ==
    /\ req[r].pc = "sniff"
    /\ LET q == req[r]
       IN  Goes(r, IF Optimizable(CurFile(q))
                   THEN [q EXCEPT !.pc = "optimize"]
                   ELSE [q EXCEPT !.pc = "put", !.body = "original"])
    /\ UNCHANGED << Index, store, now, nextId, History, call, started >>

\* s3Service.uploadFile, the type check: FileType.fromFile has answered.
\* The AppError(400) of a mismatch is thrown inside uploadFile's try and
\* leaves it wrapped by its catch.
UploadFile_Sniff(r) ==
    /\ req[r].pc = "sniff"
    /\ LET q == req[r]
       IN  Goes(r, IF TypeMismatch(CurFile(q))
                   THEN Throw(q, UploadFailed("File upload failed: File type validation failed"))
                   ELSE IF Optimizable(CurFile(q))
                        THEN [q EXCEPT !.pc = "optimize"]
                        ELSE [q EXCEPT !.pc = "put", !.body = "original"])
    /\ UNCHANGED << Index, store, now, nextId, History, call, started >>

\* s3Service.uploadFile, the image optimisation: sharp has answered; when
\* it failed the original file is uploaded.
UploadFile_Optimize(r) ==
    /\ req[r].pc = "optimize"
    /\ \E ok \in BOOLEAN :
         Goes(r, [req[r] EXCEPT !.pc = "put",
                                !.body = IF ok THEN "optimized" ELSE "original"])
    /\ UNCHANGED << Index, store, now, nextId, History, call, started >>

\* s3.upload whose failure is taken for a success: the caller goes on to
\* save the metadata of an object that is not there.
UploadFile_Put_IgnoreFailure(r) ==
    /\ req[r].pc = "put"
    /\ LET q   == req[r]
           key == UploadKey(Anonymous, CurId(q), CurFile(q).originalname)
       IN  \/ /\ store' = S3Put(store, key, q.body, CurFile(q).mimetype)
              /\ Goes(r, [q EXCEPT !.key = key, !.pc = "save"])
           \/ /\ Goes(r, [q EXCEPT !.key = key, !.pc = "save"])
              /\ UNCHANGED store
    /\ UNCHANGED << Index, now, nextId, History, call, started >>

\* The metadata saved before s3.upload has answered: a failed put leaves
\* the record behind.
UploadFile_Put_SaveFirst(r) ==
    /\ req[r].pc = "put"
    /\ LET q   == req[r]
           key == UploadKey(Anonymous, CurId(q), CurFile(q).originalname)
       IN  \/ /\ store' = S3Put(store, key, q.body, CurFile(q).mimetype)
              /\ Goes(r, [q EXCEPT !.key = key, !.pc = "save"])
              /\ UNCHANGED files
           \/ /\ files' = saveFileMetadata(files, UploadMetadata([q EXCEPT !.key = key], now), now)
              /\ Goes(r, Throw(q, UploadFailed("File upload failed: S3 error")))
              /\ UNCHANGED store
    /\ UNCHANGED << shareActivity, now, nextId, History, call, started >>

\* s3Service.uploadFile, s3.upload: the object is stored, or the call fails
\* and nothing is stored.
UploadFile_Put(r) ==
    /\ req[r].pc = "put"
    /\ LET q   == req[r]
           key == UploadKey(Anonymous, CurId(q), CurFile(q).originalname)
       IN  \/ /\ store' = S3Put(store, key, q.body, CurFile(q).mimetype)
              /\ Goes(r, [q EXCEPT !.key = key, !.pc = "save"])
           \/ /\ Goes(r, Throw(q, UploadFailed("File upload failed: S3 error")))
              /\ UNCHANGED store
    /\ UNCHANGED << Index, now, nextId, History, call, started >>

\* uploadSingle: uploadFile has returned; the metadata is saved and the
\* temp file's removal is started.
UploadSingle_Save(r) ==
    /\ req[r].pc = "save"
    /\ req[r].kind = "uploadSingle"
    /\ files' = saveFileMetadata(files, UploadMetadata(req[r], now), now)
    /\ Goes(r, [req[r] EXCEPT !.meta = MetaOf(getFileMetadata(files', CurId(req[r]))),
                              !.pc = "unlink"])
    /\ UNCHANGED << shareActivity, store, now, nextId, History, call, started >>

\* uploadSingle: fs.unlink has answered (a failure is only logged) and the
\* signing of the read URL is started.
UploadSingle_Unlink(r) ==
    /\ req[r].pc = "unlink"
    /\ Goes(r, [req[r] EXCEPT !.unlinked = @ \cup {1}, !.pc = "sign"])
    /\ UNCHANGED << Index, store, now, nextId, History, call, started >>

\* uploadSingle: getPresignedUrl has answered: the 201 response, or the
\* error goes to the catch.
UploadSingle_Sign(r) ==
    /\ req[r].pc = "sign"
    /\ req[r].kind = "uploadSingle"
    /\ LET q == req[r]
       IN  \/ Answers(r, Json(q, 201, UploadResult(q)))
           \/ Goes(r, Throw(q, AppError("Failed to generate access URL", 500)))
    /\ UNCHANGED << Index, store, now, nextId, History, call, started >>

\* The catch that calls next(error) without removing the temp file.
UploadSingle_Catch_NoCleanup(r) ==
    /\ req[r].pc = "unlink_err"
    /\ Answers(r, NextError(req[r], req[r].error))
    /\ UNCHANGED << Index, store, now, nextId, History, call, started >>

\* uploadSingle's catch: the temp file is removed (again, when the error
\* came after the first removal) and the error goes to next().
UploadSingle_Catch(r) ==
    /\ req[r].pc = "unlink_err"
    /\ Answers(r, NextError([req[r] EXCEPT !.unlinked = @ \cup {1}], req[r].error))
    /\ UNCHANGED << Index, store, now, nextId, History, call, started >>

\* uploadMultiple: uploadFile has returned for the current file; its
\* metadata is saved and the signing of its read URL is started.
UploadMultiple_Save(r) ==
    /\ req[r].pc = "save"
    /\ req[r].kind = "uploadMultiple"
    /\ files' = saveFileMetadata(files, UploadMetadata(req[r], now), now)
    /\ Goes(r, [req[r] EXCEPT !.meta = MetaOf(getFileMetadata(files', CurId(req[r]))),
                              !.pc = "sign"])
    /\ UNCHANGED << shareActivity, store, now, nextId, History, call, started >>

\* The file pushed to uploadedFiles before its URL is awaited: when the
\* signing fails it is in both lists.
UploadMultiple_Sign_PushFirst(r) ==
    /\ req[r].pc = "sign"
    /\ req[r].kind = "uploadMultiple"
    /\ LET q == [req[r] EXCEPT !.uploaded = Append(@, UploadResult(req[r]))]
       IN  \/ Goes(r, [q EXCEPT !.pc = "unlink_item"])
           \/ Goes(r, Throw(q, AppError("Failed to generate access URL", 500)))
    /\ UNCHANGED << Index, store, now, nextId, History, call, started >>

\* uploadMultiple: getPresignedUrl has answered for the current file: it
\* joins uploadedFiles, or the error makes it join failedFiles.
UploadMultiple_Sign(r) ==
    /\ req[r].pc = "sign"
    /\ req[r].kind = "uploadMultiple"
    /\ LET q == req[r]
       IN  \/ Goes(r, [q EXCEPT !.uploaded = Append(@, UploadResult(q)),
                                !.pc = "unlink_item"])
           \/ Goes(r, Throw(q, AppError("Failed to generate access URL", 500)))
    /\ UNCHANGED << Index, store, now, nextId, History, call, started >>

\* The body of uploadMultiple's response.
BatchOutcome(q) ==
    [ uploaded |-> q.uploaded,
      failed   |-> q.failed,
      summary  |-> [ total      |-> Len(q.files),
                     successful |-> Len(q.uploaded),
                     failed     |-> Len(q.failed) ] ]

\* uploadMultiple: the current file's temp file has been removed (in the
\* try or in the inner catch); the loop takes the next file or, after the
\* last one, the 201 response is sent.
UploadMultiple_Unlink(r) ==
    /\ req[r].pc = "unlink_item"
    /\ LET q == [req[r] EXCEPT !.unlinked = @ \cup { req[r].idx }]
       IN  IF q.idx < Len(q.files)
           THEN Goes(r, [q EXCEPT !.idx = @ + 1, !.pc = "sniff", !.body = "none",
                                  !.key = NoKey, !.meta = NoMeta, !.error = NoError])
           ELSE Answers(r, Json(q, 201, BatchOutcome(q)))
    /\ UNCHANGED << Index, store, now, nextId, History, call, started >>

\* getPresignedUrl (the direct-to-S3 route): an id and a key are made up and
\* getPresignedUploadUrl is awaited.  The body's filename and contentType
\* are those of a file the client holds.
StartDirectUpload(r, file) ==
    /\ Free(r)
    /\ now' = now + 1
    /\ started' = started + 1
    /\ Goes(r, [NoReq EXCEPT !.kind = "getPresignedUrl", !.pc = "sign_put",
                             !.files = << file >>, !.ids = << nextId >>, !.idx = 1,
                             !.expires = UploadUrlTtl,
                             !.key = DirectKey(nextId, file.originalname)])
    /\ nextId' = nextId + 1
    /\ UNCHANGED << Index, store, History, call >>

\* getPresignedUrl without filename or contentType: 400.
DirectUploadBadRequest(r) ==
    /\ Free(r)
    /\ now' = now + 1
    /\ started' = started + 1
    /\ Answers(r, NextError([NoReq EXCEPT !.kind = "getPresignedUrl"],
                            AppError("Filename and contentType are required", 400)))
    /\ UNCHANGED << Index, store, nextId, History, call >>

\* getPresignedUrl: getPresignedUploadUrl has answered.
DirectUpload_Sign(r) ==
    /\ req[r].pc = "sign_put"
    /\ LET q == req[r]
       IN  \/ Answers(r, Json(q, 200, [ fileId |-> CurId(q), key |-> q.key,
                                        uploadUrl |-> << q.key, q.expires >>,
                                        expiresIn |-> q.expires ]))
           \/ Answers(r, NextError(q, AppError("Failed to generate upload URL", 500)))
    /\ UNCHANGED << Index, store, now, nextId, History, call, started >>

\* --------------------------------------------- FileController (README.md)
\* The missing record reported as a failure of the server.
NotFound_AsServerError(kind, fileId) ==
    NextError([NoReq EXCEPT !.kind = kind, !.fileId = fileId], AppError("File not found", 500))

\* A handler that starts by looking the file up: `File not found`, 404.
NotFound(kind, fileId) ==
    NextError([NoReq EXCEPT !.kind = kind, !.fileId = fileId], AppError("File not found", 404))
\* ... or goes on with the record found.
Found(kind, fileId, pc) ==
    [NoReq EXCEPT !.kind = kind, !.fileId = fileId, !.pc = pc,
                  !.meta = MetaOf(getFileMetadata(files, fileId))]

\* getFile, up to the await of getPresignedUrl.
StartGetFile(r, fileId) ==
    /\ Free(r)
    /\ now' = now + 1
    /\ started' = started + 1
    /\ IF hasFileMetadata(files, fileId)
       THEN Goes(r, Found("getFile", fileId, "sign_get"))
       ELSE Answers(r, NotFound("getFile", fileId))
    /\ UNCHANGED << Index, store, nextId, History, call >>

\* getFile counting the access before the URL is signed: a failed signing
\* has counted one too.
GetFile_Sign_CountsFirst(r) ==
    /\ req[r].pc = "sign_get"
    /\ LET q == req[r]
       IN  /\ files' = updateAccessStats(files, q.fileId, now)
           /\ accessCalls' = [accessCalls EXCEPT ![q.fileId] = @ + 1]
           /\ \/ Answers(r, Json(q, 200, q.meta))
              \/ Answers(r, NextError(q, AppError("Failed to generate access URL", 500)))
    /\ UNCHANGED << shareActivity, store, now, nextId, s3Deleted, metaDeleted, call, started >>

\* getFile: getPresignedUrl has answered; the access is counted and the
\* response is sent from what was read at the start.
GetFile_Sign(r) ==
    /\ req[r].pc = "sign_get"
    /\ LET q == req[r]
       IN  \/ /\ files' = updateAccessStats(files, q.fileId, now)
              /\ accessCalls' = [accessCalls EXCEPT ![q.fileId] = @ + 1]
              /\ Answers(r, Json(q, 200, q.meta))
           \/ /\ Answers(r, NextError(q, AppError("Failed to generate access URL", 500)))
              /\ UNCHANGED << files, accessCalls >>
    /\ UNCHANGED << shareActivity, store, now, nextId, s3Deleted, metaDeleted, call, started >>

\* getFileMetadata: the record as it is, or 404.
GetMetadata(r, fileId) ==
    /\ Free(r)
    /\ now' = now + 1
    /\ started' = started + 1
    /\ Answers(r, IF hasFileMetadata(files, fileId)
                  THEN Json([NoReq EXCEPT !.kind = "getFileMetadata", !.fileId = fileId],
                            200, getFileMetadata(files, fileId))
                  ELSE NotFound("getFileMetadata", fileId))
    /\ UNCHANGED << Index, store, nextId, History, call >>

\* deleteFile, up to the await of s3Service.deleteFile.
StartDeleteFile(r, fileId) ==
    /\ Free(r)
    /\ now' = now + 1
    /\ started' = started + 1
    /\ IF hasFileMetadata(files, fileId)
       THEN Goes(r, Found("deleteFile", fileId, "delete_s3"))
       ELSE Answers(r, NotFound("deleteFile", fileId))
    /\ UNCHANGED << Index, store, nextId, History, call >>

\* s3.deleteObject whose failure is only logged: the handler goes on to
\* delete the metadata.
DeleteFile_S3_IgnoreFailure(r) ==
    /\ req[r].pc = "delete_s3"
    /\ LET q == req[r]
       IN  \/ /\ store' = S3Delete(store, q.meta.s3Key)
              /\ s3Deleted' = s3Deleted \cup { q.fileId }
              /\ Goes(r, [q EXCEPT !.pc = "delete_meta"])
           \/ /\ Goes(r, [q EXCEPT !.pc = "delete_meta"])
              /\ UNCHANGED << store, s3Deleted >>
    /\ UNCHANGED << Index, now, nextId, metaDeleted, accessCalls, call, started >>

\* The metadata deleted before s3.deleteObject has answered.
DeleteFile_S3_MetadataFirst(r) ==
    /\ req[r].pc = "delete_s3"
    /\ LET q == req[r]
       IN  /\ files' = deleteFileMetadataFiles(files, q.fileId)
           /\ shareActivity' = deleteFileMetadataShares(shareActivity, q.fileId)
           /\ \/ /\ store' = S3Delete(store, q.meta.s3Key)
                 /\ s3Deleted' = s3Deleted \cup { q.fileId }
                 /\ Goes(r, [q EXCEPT !.pc = "delete_meta"])
              \/ /\ Answers(r, NextError(q, AppError("File deletion failed", 500)))
                 /\ UNCHANGED << store, s3Deleted >>
    /\ UNCHANGED << now, nextId, metaDeleted, accessCalls, call, started >>

\* deleteFile, s3.deleteObject: the object is gone, or the call fails, the
\* object stays and the error goes to next().
DeleteFile_S3(r) ==
    /\ req[r].pc = "delete_s3"
    /\ LET q == req[r]
       IN  \/ /\ store' = S3Delete(store, q.meta.s3Key)
              /\ s3Deleted' = s3Deleted \cup { q.fileId }
              /\ Goes(r, [q EXCEPT !.pc = "delete_meta"])
           \/ /\ Answers(r, NextError(q, AppError("File deletion failed", 500)))
              /\ UNCHANGED << store, s3Deleted >>
    /\ UNCHANGED << Index, now, nextId, metaDeleted, accessCalls, call, started >>

\* deleteFile: s3Service.deleteFile has returned; the metadata is deleted
\* and the response is sent.
DeleteFile_Metadata(r) ==
    /\ req[r].pc = "delete_meta"
    /\ LET q == req[r]
       IN  /\ files' = deleteFileMetadataFiles(files, q.fileId)
           /\ shareActivity' = deleteFileMetadataShares(shareActivity, q.fileId)
           /\ metaDeleted' = IF deleteFileMetadataResult(files, q.fileId)
                             THEN metaDeleted \cup { q.fileId } ELSE metaDeleted
           /\ Answers(r, Json(q, 200, [fileId |-> q.fileId]))
    /\ UNCHANGED << store, now, nextId, s3Deleted, accessCalls, call, started >>

\* req.query.expires of a share request.
ShareExpires == { DefaultShareExpires }

\* createShareableLink, up to the await of getPresignedUrl.
StartShare(r, fileId, expires) ==
    /\ Free(r)
    /\ now' = now + 1
    /\ started' = started + 1
    /\ IF hasFileMetadata(files, fileId)
       THEN Goes(r, [Found("createShareableLink", fileId, "sign_share")
                       EXCEPT !.expires = expires])
       ELSE Answers(r, NotFound("createShareableLink", fileId))
    /\ UNCHANGED << Index, store, nextId, History, call >>

\* createShareableLink: getPresignedUrl has answered; the share is logged
\* and the response is sent.
Share_Sign(r) ==
    /\ req[r].pc = "sign_share"
    /\ LET q == req[r]
       IN  \/ /\ shareActivity' = logShareActivity(shareActivity, q.fileId, q.expires, now)
              /\ Answers(r, Json(q, 200, [ fileId |-> q.fileId,
                                           filename |-> q.meta.originalName,
                                           shareableUrl |-> << q.meta.s3Key, q.expires >>,
                                           expiresIn |-> q.expires ]))
           \/ /\ Answers(r, NextError(q, AppError("Failed to generate access URL", 500)))
              /\ UNCHANGED shareActivity
    /\ UNCHANGED << files, store, now, nextId, History, call, started >>

\* The query strings of the listing requests.
ListQueries ==
    [ page : { Undefined, "2" }, limit : { Undefined, "1" },
      type : { Undefined, "image" }, search : { Undefined, "NOTES" } ]

\* The options the listFiles handler makes of req.query.
OptionsPage(query) == IF query.page = Undefined THEN DefaultPage ELSE parseInt(query.page)
OptionsLimit(query) == IF query.limit = Undefined THEN DefaultLimit ELSE parseInt(query.limit)
\* `if (type)`, `if (search)`: a parameter that is not there filters nothing.
OptionsFilter(param) == IF param = Undefined THEN "" ELSE param

\* The body of the listFiles handler's response.
ListData(result) ==
    [ files |-> result.files,
      pagination |-> [ page |-> result.page, limit |-> result.limit, total |-> result.total,
                       pages |-> result.pages, hasNext |-> result.hasNext,
                       hasPrev |-> result.hasPrev ] ]

\* listFiles (the handler): fileService.listFiles has no await inside, so
\* the listing is made and sent without another request running in between.
ListFiles(r, query) ==
    /\ Free(r)
    /\ now' = now + 1
    /\ started' = started + 1
    /\ LET q == [NoReq EXCEPT !.kind = "listFiles", !.query = query]
       IN  Answers(r, Json(q, 200,
                ListData(listFiles(files, OptionsPage(query), OptionsLimit(query),
                                   OptionsFilter(query.type), OptionsFilter(query.search)))))
    /\ UNCHANGED << Index, store, nextId, History, call >>

\* The statistics put together from two readings of the index, the record
\* saved last missing from the second one.
GetUploadStats_Torn(r) ==
    /\ Free(r)
    /\ now' = now + 1
    /\ started' = started + 1
    /\ LET whole  == getUploadStats(files, now')
           before == getUploadStats(SubSeq(files, 1, Len(files) - 1), now')
       IN  Answers(r, Json([NoReq EXCEPT !.kind = "getUploadStats"], 200,
                           [whole EXCEPT !.distribution = before.distribution]))
    /\ UNCHANGED << Index, store, nextId, History, call >>

\* getUploadStats (the handler): fileService.getUploadStats has no await
\* inside either.
GetUploadStats(r) ==
    /\ Free(r)
    /\ now' = now + 1
    /\ started' = started + 1
    /\ Answers(r, Json([NoReq EXCEPT !.kind = "getUploadStats"], 200,
                       getUploadStats(files, now')))
    /\ UNCHANGED << Index, store, nextId, History, call >>

\* ------------------------------------------------------ the specification
\* A call on the FileService: the method, its fileId, what it returned,
\* whether the call before it was the same method on the same fileId, and
\* for listFiles its filters and its listing.
NoList ==
    [ files |-> << >>, page |-> 0, limit |-> 0, total |-> 0, pages |-> 0,
      hasNext |-> FALSE, hasPrev |-> FALSE ]
NoStats == << >>
NoExport == << >>
NoCall ==
    [ op |-> "none", fileId |-> 0, result |-> "none", again |-> FALSE,
      type |-> "", search |-> "", list |-> NoList, stats |-> NoStats,
      exported |-> NoExport ]

Init ==
    /\ files = << >>
    /\ shareActivity = << >>
    /\ store = {}
    /\ now = 0
    /\ nextId = 1
    /\ req = [r \in Reqs |-> NoReq]
    /\ response = NoResponse
    /\ s3Deleted = {}
    /\ metaDeleted = {}
    /\ accessCalls = [id \in FileIds |-> 0]
    /\ call = NoCall
    /\ started = 0

Next ==
    \/ \E r \in Reqs, file \in InputFiles : StartUploadSingle(r, file)
    \/ \E r \in Reqs : UploadSingleNoFile(r)
    \/ \E r \in Reqs, batch \in Batches(MaxLoad - started) : StartUploadMultiple(r, batch)
    \/ \E r \in Reqs : UploadMultipleNoFiles(r)
    \/ \E r \in Reqs : UploadFile_Sniff(r)
    \/ \E r \in Reqs : UploadFile_Optimize(r)
    \/ \E r \in Reqs : UploadFile_Put(r)
    \/ \E r \in Reqs : UploadSingle_Save(r)
    \/ \E r \in Reqs : UploadSingle_Unlink(r)
    \/ \E r \in Reqs : UploadSingle_Sign(r)
    \/ \E r \in Reqs : UploadSingle_Catch(r)
    \/ \E r \in Reqs : UploadMultiple_Save(r)
    \/ \E r \in Reqs : UploadMultiple_Sign(r)
    \/ \E r \in Reqs : UploadMultiple_Unlink(r)
    \/ \E r \in Reqs, file \in InputFiles : StartDirectUpload(r, file)
    \/ \E r \in Reqs : DirectUploadBadRequest(r)
    \/ \E r \in Reqs : DirectUpload_Sign(r)
    \/ \E r \in Reqs, fileId \in KnownIds(nextId) : StartGetFile(r, fileId)
    \/ \E r \in Reqs : GetFile_Sign(r)
    \/ \E r \in Reqs, fileId \in KnownIds(nextId) : GetMetadata(r, fileId)
    \/ \E r \in Reqs, fileId \in KnownIds(nextId) : StartDeleteFile(r, fileId)
    \/ \E r \in Reqs : DeleteFile_S3(r)
    \/ \E r \in Reqs : DeleteFile_Metadata(r)
    \/ \E r \in Reqs, fileId \in KnownIds(nextId), expires \in ShareExpires : StartShare(r, fileId, expires)
    \/ \E r \in Reqs : Share_Sign(r)
    \/ \E r \in Reqs, query \in ListQueries : ListFiles(r, query)
    \/ \E r \in Reqs : GetUploadStats(r)

Spec == Init /\ [][Next]_vars

\* ------------------------------------------ the FileService on its own
\* fileService.js exports the service object: the specification below
\* calls its methods directly, in any order and with any arguments, each
\* call running to its end (no method awaits anything).  `call` keeps the
\* last call and what it returned.
MaxCalls == 5

Called(op, fileId, result) ==
    /\ started < MaxCalls
    /\ started' = started + 1
    /\ call' = [ NoCall EXCEPT !.op = op, !.fileId = fileId, !.result = result,
                               !.again = (call.op = op /\ call.fileId = fileId) ]
    /\ UNCHANGED << store, nextId, req, response, History >>

\* The metadata a caller hands to saveFileMetadata for a file.
MetadataFor(fileId, file, t) ==
    [ fileId |-> fileId, originalName |-> file.originalname, mimeType |-> file.mimetype,
      size |-> file.size, s3Key |-> UploadKey(Anonymous, fileId, file.originalname),
      userId |-> Anonymous, uploadedAt |-> t ]

Call_saveFileMetadata(fileId, file) ==
    /\ files' = saveFileMetadata(files, MetadataFor(fileId, file, now), now)
    /\ Called("saveFileMetadata", fileId, "record")
    /\ UNCHANGED << shareActivity, now >>

Call_getFileMetadata(fileId) ==
    /\ Called("getFileMetadata", fileId,
              IF hasFileMetadata(files, fileId) THEN "record" ELSE "null")
    /\ UNCHANGED << Index, now >>

Call_updateAccessStats(fileId) ==
    /\ files' = updateAccessStats(files, fileId, now)
    /\ Called("updateAccessStats", fileId, "undefined")
    /\ UNCHANGED << shareActivity, now >>

Call_deleteFileMetadata(fileId) ==
    /\ files' = deleteFileMetadataFiles(files, fileId)
    /\ shareActivity' = deleteFileMetadataShares(shareActivity, fileId)
    /\ Called("deleteFileMetadata", fileId,
              IF deleteFileMetadataResult(files, fileId) THEN "true" ELSE "false")
    /\ UNCHANGED now

Call_logShareActivity(fileId, expires) ==
    /\ shareActivity' = logShareActivity(shareActivity, fileId, expires, now)
    /\ Called("logShareActivity", fileId, "undefined")
    /\ UNCHANGED << files, now >>

\* The calls made while listings are looked at.
MaxListCalls == 4

\* The arguments of the listFiles calls.
ListPages == 1..2
ListLimits == 2..3
ListTypes == { "", "image" }
ListSearches == { "", "o", "PHOTO" }

\* listFiles sorting the values of the map where they are: the map's
\* entries come out newest first.
Call_listFiles_SortsInPlace(page, limit, type, search) ==
    /\ started < MaxListCalls
    /\ started' = started + 1
    /\ call' = [ NoCall EXCEPT !.op = "listFiles", !.result = "list",
                               !.type = type, !.search = search,
                               !.list = listFiles(files, page, limit, type, search) ]
    /\ files' = LET sorted == SortNewestFirst(MapValues(files))
                IN  [i \in 1..Len(sorted) |-> << sorted[i].fileId, sorted[i] >>]
    /\ UNCHANGED << shareActivity, now, store, nextId, req, response, History >>

Call_listFiles(page, limit, type, search) ==
    /\ started < MaxListCalls
    /\ started' = started + 1
    /\ call' = [ NoCall EXCEPT !.op = "listFiles", !.result = "list",
                               !.type = type, !.search = search,
                               !.list = listFiles(files, page, limit, type, search) ]
    /\ UNCHANGED << Index, now, store, nextId, req, response, History >>

\* The clock between two calls.
Tick ==
    /\ now < MaxClock
    /\ now' = now + 1
    /\ UNCHANGED << Index, store, nextId, req, response, History, call, started >>

\* The fileIds callers use.
CallIds == 1..2

IndexNext ==
    \/ \E fileId \in CallIds, file \in InputFiles : Call_saveFileMetadata(fileId, file)
    \/ \E fileId \in CallIds : Call_getFileMetadata(fileId)
    \/ \E fileId \in CallIds : Call_updateAccessStats(fileId)
    \/ \E fileId \in CallIds : Call_deleteFileMetadata(fileId)
    \/ \E fileId \in CallIds, expires \in ShareExpires : Call_logShareActivity(fileId, expires)
    \/ Tick

IndexSpec == Init /\ [][IndexNext]_vars

\* The listing of an index that callers fill and empty.
ListIds == 1..3

ListNext ==
    \/ \E fileId \in ListIds, file \in InputFiles :
         started < MaxListCalls /\ Call_saveFileMetadata(fileId, file)
    \/ \E fileId \in ListIds :
         started < MaxListCalls /\ Call_deleteFileMetadata(fileId)
    \/ \E page \in ListPages, limit \in ListLimits, type \in ListTypes, search \in ListSearches :
         Call_listFiles(page, limit, type, search)
    \/ Tick

ListSpec == Init /\ [][ListNext]_vars

\* -------------------------------------------- the statistics on their own
\* The records callers save while statistics are looked at: one file per
\* category, and one whose type has `text/` inside it.
StatsFiles ==
    { [originalname |-> "notes.txt", mimetype |-> "text/plain",      size |-> 10],
      [originalname |-> "photo.png", mimetype |-> "image/png",       size |-> 25],
      [originalname |-> "clip.mp4",  mimetype |-> "video/mp4",       size |-> 30],
      [originalname |-> "song.mp3",  mimetype |-> "audio/mpeg",      size |-> 40],
      [originalname |-> "paper.pdf", mimetype |-> "application/pdf", size |-> 50],
      [originalname |-> "data.zip",  mimetype |-> "application/zip", size |-> 60],
      [originalname |-> "font.woff", mimetype |-> "font/woff",       size |-> 70],
      [originalname |-> "memo.xtx",  mimetype |-> "x-text/plain",    size |-> 80] }

MaxStatsCalls == 4

Call_getUploadStats ==
    /\ started < MaxStatsCalls
    /\ started' = started + 1
    /\ call' = [ NoCall EXCEPT !.op = "getUploadStats", !.result = "stats",
                               !.stats = getUploadStats(files, now) ]
    /\ UNCHANGED << Index, now, store, nextId, req, response, History >>

StatsNext ==
    \/ \E fileId \in CallIds, file \in StatsFiles :
         started < MaxStatsCalls /\ Call_saveFileMetadata(fileId, file)
    \/ \E fileId \in CallIds :
         started < MaxStatsCalls /\ Call_updateAccessStats(fileId)
    \/ \E fileId \in CallIds :
         started < MaxStatsCalls /\ Call_deleteFileMetadata(fileId)
    \/ Call_getUploadStats
    \/ Tick

StatsSpec == Init /\ [][StatsNext]_vars

\* ------------------------------------- the operations that only read
MaxReadCalls == 4

Call_exportData ==
    /\ started < MaxReadCalls
    /\ started' = started + 1
    /\ call' = [ NoCall EXCEPT !.op = "exportData", !.result = "export",
                               !.exported = exportData(files, shareActivity, now) ]
    /\ UNCHANGED << Index, now, store, nextId, req, response, History >>

\* The callers of the service that write, the operations that only read,
\* and the direct-to-S3 request of a client.
ReadNext ==
    \/ \E fileId \in CallIds, file \in InputFiles :
         started < MaxReadCalls /\ Call_saveFileMetadata(fileId, file)
    \/ \E fileId \in CallIds :
         started < MaxReadCalls /\ Call_updateAccessStats(fileId)
    \/ \E fileId \in CallIds :
         started < MaxReadCalls /\ Call_deleteFileMetadata(fileId)
    \/ \E fileId \in CallIds, expires \in ShareExpires :
         started < MaxReadCalls /\ Call_logShareActivity(fileId, expires)
    \/ \E fileId \in CallIds :
         started < MaxReadCalls /\ Call_getFileMetadata(fileId)
    \/ \E page \in ListPages, limit \in ListLimits, type \in ListTypes :
         started < MaxReadCalls /\ Call_listFiles(page, limit, type, "")
    \/ started < MaxReadCalls /\ Call_getUploadStats
    \/ Call_exportData
    \/ \E r \in Reqs, file \in InputFiles : StartDirectUpload(r, file)
    \/ \E r \in Reqs : DirectUploadBadRequest(r)
    \/ \E r \in Reqs : DirectUpload_Sign(r)
    \/ Tick

ReadSpec == Init /\ [][ReadNext]_vars

\* ------------------------------------------------------------ properties
Uploads == { "uploadSingle", "uploadMultiple" }
RecordKeys == { files[i][2].s3Key : i \in 1..Len(files) }

\* The files an upload response reports as uploaded.
SuccessEntries(resp) ==
    IF resp.kind = "uploadSingle" /\ resp.status = 201 THEN { resp.data }
    ELSE IF resp.kind = "uploadMultiple" /\ resp.status = 201
         THEN { resp.data.uploaded[i] : i \in 1..Len(resp.data.uploaded) }
         ELSE {}

\* Neither a record nor an object of the file with this id.
NoTrace(fileId, file) ==
    /\ ~hasFileMetadata(files, fileId)
    /\ UploadKey(Anonymous, fileId, file.originalname) \notin StoreKeys(store)

PutFailed == UploadFailed("File upload failed: S3 error")

\* C1, as stated: in every reachable state the keys of the records in the
\* index are exactly the keys the object store holds bytes under.
C1_RecordIffBytes == RecordKeys = StoreKeys(store)

\* C1, amended: the index and the object store hold the same keys, except
\* that bytes have no record yet while their upload is between its put and
\* its saveFileMetadata, and a record has no bytes any more while a
\* deleteFile of its file is between its object-store delete and its
\* index delete.
C1_RecordIffBytesOutsideWindows ==
    /\ \A k \in StoreKeys(store) \ RecordKeys :
         \E r \in Reqs : req[r].pc = "save" /\ req[r].key = k
    /\ \A k \in RecordKeys \ StoreKeys(store) :
         \E r \in Reqs : req[r].pc = "delete_meta" /\ req[r].meta.s3Key = k

\* A record whose bytes a deleteFile has deleted, next to a file that has
\* both its record and its bytes.
C1_Witness ==
    /\ RecordKeys \ StoreKeys(store) # {}
    /\ RecordKeys \cap StoreKeys(store) # {}

\* C2, as stated: when an upload is reported as successful, the object
\* store holds bytes under its key and the index holds the record of the
\* new fileId with that key.
C2_SuccessMeansStored ==
    \A u \in SuccessEntries(response) :
        /\ u.url \in StoreKeys(store)
        /\ hasFileMetadata(files, u.fileId)
        /\ getFileMetadata(files, u.fileId).s3Key = u.url

\* C2, amended: when an upload is reported as successful, then unless a
\* deleteFile of the new fileId has deleted its object in the meantime,
\* the object store holds bytes under its key and the index holds the
\* record of the new fileId with that key.
C2_SuccessMeansStoredUnlessDeleted ==
    \A u \in SuccessEntries(response) :
        u.fileId \notin s3Deleted =>
            /\ u.url \in StoreKeys(store)
            /\ hasFileMetadata(files, u.fileId)
            /\ getFileMetadata(files, u.fileId).s3Key = u.url

\* A batch reports a file as uploaded while a deleteFile is at work on
\* another file.
C2_Witness ==
    /\ response.kind = "uploadMultiple"
    /\ \E u \in SuccessEntries(response) : u.fileId \notin s3Deleted
    /\ \E r \in Reqs : req[r].kind = "deleteFile"

\* C3: an upload that ends with an error, or a batch item reported as
\* failed, leaves no record of its fileId in the index.
C3_FailedUploadLeavesNoRecord ==
    response.kind \in Uploads =>
        \A i \in 1..Len(response.ids) :
            response.ids[i] \notin { u.fileId : u \in SuccessEntries(response) }
                => ~hasFileMetadata(files, response.ids[i])

\* C4: a file whose detected type conflicts with its declared type never
\* gets an object in the store nor a record in the index, while its upload
\* runs and when it answers; a single upload of it answers with an error
\* and a batch lists it as failed.
C4_MismatchWritesNothing ==
    /\ \A r \in Reqs : req[r].kind \in Uploads =>
         \A i \in 1..Len(req[r].files) :
             TypeMismatch(req[r].files[i]) => NoTrace(req[r].ids[i], req[r].files[i])
    /\ response.kind \in Uploads =>
         \A i \in 1..Len(response.files) :
             TypeMismatch(response.files[i]) =>
                 /\ NoTrace(response.ids[i], response.files[i])
                 /\ response.ids[i] \notin { u.fileId : u \in SuccessEntries(response) }
                 /\ response.kind = "uploadSingle" => response.status >= 400
                 /\ response.kind = "uploadMultiple" =>
                      \E j \in 1..Len(response.data.failed) :
                          response.data.failed[j].filename = response.files[i].originalname

\* A mismatching upload has answered and the index holds the record of
\* another file.
C4_Witness ==
    /\ response.kind = "uploadSingle"
    /\ response.files # << >>
    /\ TypeMismatch(response.files[1])
    /\ files # << >>

\* C5: the upload of a file whose detected type conflicts with its
\* declared type answers with a 4xx status.
C5_MismatchIsClientError ==
    ( /\ response.kind = "uploadSingle"
      /\ response.files # << >>
      /\ TypeMismatch(response.files[1]) ) => response.status \in 400..499

\* C6: when s3.upload fails, the error is the 500 of a failed upload and
\* the file has no record in the index (and no object in the store), both
\* while the error is handled and when a single upload answers with it.
C6_PutFailureSavesNothing ==
    /\ \A r \in Reqs :
         (req[r].pc \in { "unlink_err", "unlink_item" } /\ req[r].error.message = PutFailed.message)
             => /\ req[r].error.statusCode = 500
                /\ NoTrace(CurId(req[r]), CurFile(req[r]))
    /\ (response.kind = "uploadSingle" /\ response.error.message = PutFailed.message)
             => /\ response.status = 500
                /\ NoTrace(response.ids[1], response.files[1])

\* A single upload has answered with the error of a failed put and the
\* index holds the record of another file.
C6_Witness ==
    /\ response.kind = "uploadSingle"
    /\ response.error = PutFailed
    /\ files # << >>

\* C7: a step removes a record from the index only when a deleteFile of
\* that file has deleted its object before and the object is gone; and
\* when s3.deleteObject fails, that step answers 500 for the deleteFile
\* and leaves the index, the share log and the store as they are.
C7_DeleteOrder ==
    [][ /\ \A id \in FileIds :
             (hasFileMetadata(files, id) /\ ~hasFileMetadata(files', id))
                 => /\ id \in s3Deleted
                    /\ getFileMetadata(files, id).s3Key \notin StoreKeys(store)
        /\ \A r \in Reqs :
             (req[r].pc = "delete_s3" /\ req'[r].pc \notin { "delete_s3", "delete_meta" })
                 => /\ response'.kind = "deleteFile"
                    /\ response'.fileId = req[r].fileId
                    /\ response'.status = 500
                    /\ UNCHANGED << files, shareActivity, store >> ]_vars

\* A deleteFile has answered 500 and the record, with its share log, is
\* still in the index.
C7_Witness ==
    /\ response.kind = "deleteFile"
    /\ response.status = 500
    /\ hasFileMetadata(files, response.fileId)
    /\ MapHas(shareActivity, response.fileId)

\* What was ingested, as the upload response reports it, against a record.
Matches(rec, u) ==
    /\ rec.s3Key = u.url
    /\ rec.size = u.size
    /\ rec.mimeType = u.mimeType
    /\ rec.originalName = u.filename

\* C8: when an upload is reported as successful and no deleteFile has
\* removed its record, getFileMetadata returns a record with the s3Key,
\* size, mimeType and originalName that were ingested; and from then on
\* every step that is not the removal of the record by a deleteFile keeps
\* the record and these four fields.
C8_RecordMatchesIngested ==
    [][ /\ \A u \in SuccessEntries(response') :
             u.fileId \notin metaDeleted' =>
                 /\ hasFileMetadata(files', u.fileId)
                 /\ Matches(getFileMetadata(files', u.fileId), u)
        /\ \A id \in FileIds :
             (hasFileMetadata(files, id) /\ id \notin metaDeleted') =>
                 /\ hasFileMetadata(files', id)
                 /\ getFileMetadata(files', id).s3Key = getFileMetadata(files, id).s3Key
                 /\ getFileMetadata(files', id).size = getFileMetadata(files, id).size
                 /\ getFileMetadata(files', id).mimeType = getFileMetadata(files, id).mimeType
                 /\ getFileMetadata(files', id).originalName
                        = getFileMetadata(files, id).originalName ]_vars

\* An upload is reported as successful, its record is in the index, and an
\* access has been counted on a record in between.
C8_Witness ==
    /\ SuccessEntries(response) # {}
    /\ \E i \in 1..Len(files) : files[i][2].accessCount > 0
    /\ \A u \in SuccessEntries(response) : hasFileMetadata(files, u.fileId)

\* C9: saveFileMetadata called with a fileId the index holds fails with
\* Conflict and leaves the index as it is.
C9_SaveExistingIsConflict ==
    [][ ( /\ started' # started
          /\ call'.op = "saveFileMetadata"
          /\ hasFileMetadata(files, call'.fileId) )
            => (call'.result = "Conflict" /\ files' = files) ]_vars

\* C10: the accessCount of every record in the index is the number of
\* updateAccessStats calls made on it, however the requests interleave.
C10_NoLostAccess ==
    \A i \in 1..Len(files) : files[i][2].accessCount = accessCalls[files[i][1]]

\* Two accesses have been counted on one record.
C10_Witness ==
    \E i \in 1..Len(files) : files[i][2].accessCount = 2

\* A step that is a call of this method on the FileService.
IsCall(op) == started' # started /\ call'.op = op

\* C11: updateAccessStats on a fileId the index does not hold changes
\* nothing; on one it holds it adds one to accessCount, sets lastAccessed
\* and updatedAt to the current time and leaves everything else of the
\* index alone; either way it returns without an error.
C11_UpdateAccessStats ==
    [][ IsCall("updateAccessStats") =>
          LET fileId == call'.fileId
          IN  /\ call'.result = "undefined"
              /\ shareActivity' = shareActivity
              /\ IF hasFileMetadata(files, fileId)
                 THEN /\ MapKeys(files') = MapKeys(files)
                      /\ getFileMetadata(files', fileId) =
                            [getFileMetadata(files, fileId)
                                EXCEPT !.accessCount  = @ + 1,
                                       !.lastAccessed = now,
                                       !.updatedAt    = now]
                      /\ \A other \in MapKeys(files) \ { fileId } :
                            getFileMetadata(files', other) = getFileMetadata(files, other)
                 ELSE files' = files ]_vars

\* An access was just counted on a record saved at an earlier time.
C11_Witness ==
    /\ call.op = "updateAccessStats"
    /\ hasFileMetadata(files, call.fileId)
    /\ getFileMetadata(files, call.fileId).accessCount >= 1
    /\ getFileMetadata(files, call.fileId).lastAccessed = now
    /\ getFileMetadata(files, call.fileId).createdAt < now

\* C12: while a fileId has a record in the index, no call on the
\* FileService makes its accessCount smaller.
C12_AccessCountNeverDecreases ==
    [][ \A fileId \in CallIds :
          (hasFileMetadata(files, fileId) /\ hasFileMetadata(files', fileId)) =>
              getFileMetadata(files', fileId).accessCount
                  >= getFileMetadata(files, fileId).accessCount ]_vars

\* C13: while a fileId has a record in the index, its fileId, s3Key,
\* uploadedAt, originalName, mimeType and size stay as they are, and only
\* updateAccessStats on that fileId changes the record at all.
C13_RecordFrame ==
    [][ \A fileId \in CallIds :
          (hasFileMetadata(files, fileId) /\ hasFileMetadata(files', fileId)) =>
              LET old == getFileMetadata(files, fileId)
                  new == getFileMetadata(files', fileId)
              IN  /\ new.fileId = old.fileId
                  /\ new.s3Key = old.s3Key
                  /\ new.uploadedAt = old.uploadedAt
                  /\ new.originalName = old.originalName
                  /\ new.mimeType = old.mimeType
                  /\ new.size = old.size
                  /\ new # old => (call'.op = "updateAccessStats" /\ call'.fileId = fileId) ]_vars

\* C14: deleteFileMetadata returns true exactly when the index held the
\* record and false otherwise, never an error; called again on the same
\* fileId right after, it returns false and leaves the index as the first
\* call left it.
C14_DeleteTwice ==
    [][ IsCall("deleteFileMetadata") =>
          /\ call'.result \in { "true", "false" }
          /\ (call'.result = "true") <=> hasFileMetadata(files, call'.fileId)
          /\ call'.again => /\ call'.result = "false"
                            /\ files' = files
                            /\ shareActivity' = shareActivity ]_vars

\* deleteFileMetadata was called twice in a row on a fileId, with another
\* record in the index.
C14_Witness ==
    /\ call.op = "deleteFileMetadata"
    /\ call.again
    /\ call.result = "false"
    /\ files # << >>

\* C15: deleteFileMetadata leaves neither a record nor a share-activity
\* log under its fileId, and every other fileId keeps its record and its
\* share-activity log as they were.
C15_DeleteRemovesBoth ==
    [][ IsCall("deleteFileMetadata") =>
          LET fileId == call'.fileId
          IN  /\ ~hasFileMetadata(files', fileId)
              /\ ~MapHas(shareActivity', fileId)
              /\ MapKeys(files') = MapKeys(files) \ { fileId }
              /\ MapKeys(shareActivity') = MapKeys(shareActivity) \ { fileId }
              /\ \A other \in MapKeys(files') :
                    getFileMetadata(files', other) = getFileMetadata(files, other)
              /\ \A other \in MapKeys(shareActivity') :
                    MapGet(shareActivity', other) = MapGet(shareActivity, other) ]_vars

\* A record was just deleted and another fileId still has its record and
\* its share-activity log.
C15_Witness ==
    /\ call.op = "deleteFileMetadata"
    /\ call.result = "true"
    /\ \E other \in CallIds \ { call.fileId } :
          /\ hasFileMetadata(files, other)
          /\ MapHas(shareActivity, other)

\* C16: in every reachable state only fileIds with a record in the index
\* have a share-activity log.
C16_NoShareLogWithoutRecord == MapKeys(shareActivity) \subseteq MapKeys(files)

\* ------------------------------------------------ properties of listings
\* str contains sub when the case of letters is ignored.
ContainsIgnoringCase(str, sub) ==
    \E i \in 1..(Len(str) - Len(sub) + 1) :
        \A j \in 1..Len(sub) :
            LowerOf(SubSeq(str, i + j - 1, i + j - 1)) = LowerOf(SubSeq(sub, j, j))

\* The positions in the index of the records the filters select.
Selected(type, search) ==
    { i \in 1..Len(files) :
        /\ type = "" \/ includes(files[i][2].mimeType, type)
        /\ search = "" \/ ContainsIgnoringCase(files[i][2].originalName, search) }

\* The least number of pages of `limit` items that hold `total` items.
PagesFor(total, limit) ==
    CHOOSE n \in 0..total : n * limit >= total /\ (n = 0 \/ (n - 1) * limit < total)

\* The items of pages 1..page of a listing, one after the other.
RECURSIVE PagesUpTo(_, _, _, _)
PagesUpTo(page, limit, type, search) ==
    IF page = 0 THEN << >>
    ELSE PagesUpTo(page - 1, limit, type, search)
            \o listFiles(files, page, limit, type, search).files

\* C17: a listing reports as total the number T of records its filters
\* select and as pages the least number of pages of `limit` items holding
\* T items; the items of pages 1..pages, one after the other, are the
\* whole filtered and sorted list, each selected record once.
C17_PagesCoverTheList ==
    call.op = "listFiles" =>
        LET limit  == call.list.limit
            chosen == Selected(call.type, call.search)
            T      == Cardinality(chosen)
            all    == PagesUpTo(PagesFor(T, limit), limit, call.type, call.search)
        IN  /\ call.list.total = T
            /\ call.list.pages = PagesFor(T, limit)
            /\ Len(all) = T
            /\ { all[i].fileId : i \in 1..Len(all) } = { files[i][1] : i \in chosen }
            /\ all = listFiles(files, 1, T + 1, call.type, call.search).files

\* The first of two pages of a listing of three records.
C17_Witness ==
    /\ call.op = "listFiles"
    /\ call.list.total = 3
    /\ call.list.limit = 2
    /\ call.list.page = 1
    /\ Len(call.list.files) = 2

\* C18: in a listing hasNext is page < pages and hasPrev is page > 1, the
\* page holds the items left for it (none beyond the last page), and of 3
\* selected records page 2 with limit 2 holds 1, with pages 2, hasNext false
\* and hasPrev true.
C18_PageFlags ==
    call.op = "listFiles" =>
        LET l    == call.list
            left == l.total - (l.page - 1) * l.limit
        IN  /\ l.hasNext = (l.page < l.pages)
            /\ l.hasPrev = (l.page > 1)
            /\ l.page > l.pages => l.files = << >>
            /\ Len(l.files) = IF left <= 0 THEN 0 ELSE IF left < l.limit THEN left ELSE l.limit
            /\ (l.total = 3 /\ l.page = 2 /\ l.limit = 2) =>
                  (Len(l.files) = 1 /\ l.pages = 2 /\ ~l.hasNext /\ l.hasPrev)

\* The last page of a listing of three records, with limit 2.
C18_Witness ==
    /\ call.op = "listFiles"
    /\ call.list.total = 3
    /\ call.list.page = 2
    /\ call.list.limit = 2
    /\ Len(call.list.files) = 1

\* C19: a listing with a type filter and a search text holds exactly the
\* records whose mimeType contains the type and whose originalName
\* contains the search text, the case of letters ignored; its total and
\* its pages count these records, not the index.
C19_BothFilters ==
    (call.op = "listFiles" /\ call.type # "" /\ call.search # "") =>
        LET both == { i \in 1..Len(files) :
                        /\ includes(files[i][2].mimeType, call.type)
                        /\ ContainsIgnoringCase(files[i][2].originalName, call.search) }
            all  == PagesUpTo(call.list.pages, call.list.limit, call.type, call.search)
        IN  /\ { all[i].fileId : i \in 1..Len(all) } = { files[i][1] : i \in both }
            /\ call.list.total = Cardinality(both)
            /\ call.list.pages = PagesFor(Cardinality(both), call.list.limit)
            /\ \A i \in 1..Len(call.list.files) :
                  call.list.files[i].fileId \in { files[j][1] : j \in both }

\* A listing with both filters of an index of three records: one passes
\* both, one only the type filter, one only the search.
C19_Witness ==
    /\ call.op = "listFiles"
    /\ call.type # "" /\ call.search # ""
    /\ Len(files) = 3
    /\ call.list.total = 1
    /\ \E i \in 1..3 : /\ includes(files[i][2].mimeType, call.type)
                       /\ ~ContainsIgnoringCase(files[i][2].originalName, call.search)
    /\ \E i \in 1..3 : /\ ~includes(files[i][2].mimeType, call.type)
                       /\ ContainsIgnoringCase(files[i][2].originalName, call.search)

RECURSIVE SumOver(_, _)
SumOver(S, f) ==
    IF S = {} THEN 0
    ELSE LET x == CHOOSE x \in S : TRUE IN f[x] + SumOver(S \ { x }, f)

Records == 1..Len(files)
SizeOf == [i \in Records |-> files[i][2].size]
AccessesOf == [i \in Records |-> files[i][2].accessCount]
StatsReturned == call.op = "getUploadStats"

\* C21: the statistics getUploadStats returns report the number of records in
\* the index, the sum of their sizes and the sum of their accessCounts; each
\* record is counted in exactly one category, so the per-category counts add
\* up to totalFiles and the per-category bytes add up to totalSize.
C21_StatsTotals ==
    StatsReturned =>
        LET overview == call.stats.overview
            byType   == call.stats.distribution.byType
            storage  == call.stats.distribution.storageByType
        IN  /\ overview.totalFiles = Len(files)
            /\ overview.totalSize = SumOver(Records, SizeOf)
            /\ overview.totalAccesses = SumOver(Records, AccessesOf)
            /\ DOMAIN storage = DOMAIN byType
            /\ \A i \in Records : getFileCategory(files[i][2].mimeType) \in DOMAIN byType
            /\ \A c \in DOMAIN byType :
                 LET members == { i \in Records : getFileCategory(files[i][2].mimeType) = c }
                 IN  /\ byType[c] = Cardinality(members)
                     /\ storage[c] = SumOver(members, SizeOf)
            /\ SumOver(DOMAIN byType, byType) = overview.totalFiles
            /\ SumOver(DOMAIN storage, storage) = overview.totalSize

\* Statistics over two records of different categories, one of which falls
\* through to `other`, after an access was counted.
C21_Witness ==
    /\ StatsReturned
    /\ call.stats.overview.totalFiles = 2
    /\ call.stats.overview.totalAccesses > 0
    /\ Cardinality(DOMAIN call.stats.distribution.byType) = 2
    /\ "other" \in DOMAIN call.stats.distribution.byType

\* The classification the specification gives: image/*, video/*, audio/*,
\* anything containing "pdf", text/*, application/*, and other for the rest.
ReferenceCategory(mimeType) ==
    IF startsWith(mimeType, "image/") THEN "images"
    ELSE IF startsWith(mimeType, "video/") THEN "videos"
    ELSE IF startsWith(mimeType, "audio/") THEN "audio"
    ELSE IF includes(mimeType, "pdf") THEN "documents"
    ELSE IF startsWith(mimeType, "text/") THEN "text"
    ELSE IF startsWith(mimeType, "application/") THEN "applications"
    ELSE "other"

\* C22: getFileCategory gives every record the category of the reference
\* classification (image/*, video/*, audio/*, containing "pdf", text/*,
\* application/*, else other, in that precedence).
C22_CategoryIsReference ==
    \A i \in Records :
        getFileCategory(files[i][2].mimeType) = ReferenceCategory(files[i][2].mimeType)

\* C23 as stated: the averages are 0 over an empty index and otherwise are
\* the totals divided by the number of files.
C23_AveragesAreQuotients ==
    StatsReturned =>
        LET overview == call.stats.overview
            averages == call.stats.averages
        IN  IF Len(files) = 0
            THEN averages.fileSize = 0 /\ averages.accessesPerFile = 0
            ELSE /\ averages.fileSize * overview.totalFiles = overview.totalSize
                 /\ averages.accessesPerFile * overview.totalFiles = overview.totalAccesses

\* q is total / count rounded to the nearest integer, a half going up.
IsRounded(q, total, count) ==
    /\ 2 * q * count <= 2 * total + count
    /\ 2 * total + count < 2 * (q + 1) * count

\* C23: the averages getUploadStats returns are 0 over an empty index and
\* otherwise are the totals divided by the number of files, rounded to the
\* nearest integer with a half going up; a result exists in every state.
C23_AveragesAreRoundedQuotients ==
    StatsReturned =>
        LET averages == call.stats.averages
        IN  IF Len(files) = 0
            THEN averages.fileSize = 0 /\ averages.accessesPerFile = 0
            ELSE /\ IsRounded(averages.fileSize, SumOver(Records, SizeOf), Len(files))
                 /\ IsRounded(averages.accessesPerFile, SumOver(Records, AccessesOf),
                              Len(files))

\* Statistics over two records whose sizes and accesses do not divide evenly.
C23_Witness ==
    /\ StatsReturned
    /\ Len(files) = 2
    /\ call.stats.averages.fileSize * 2 > call.stats.overview.totalSize
    /\ call.stats.averages.accessesPerFile * 2 > call.stats.overview.totalAccesses

\* ------------------------------------------------------------ batches
\* A batch upload has answered (through res.json or through next).
BatchAnswered == response.kind = "uploadMultiple" /\ response.files # << >>
\* How many entries of list carry the filename name.
Named(list, name) == Cardinality({ i \in 1..Len(list) : list[i].filename = name })
InputsNamed(name) ==
    Cardinality({ i \in 1..Len(response.files) : response.files[i].originalname = name })
InputNames == { response.files[i].originalname : i \in 1..Len(response.files) }
ListedNames(list) == { list[i].filename : i \in 1..Len(list) }

\* C24: the outcome of a batch of N files has summary.total = N and
\* summary.successful + summary.failed = N, and every input file is in
\* exactly one of the uploaded and failed lists: the two lists together name
\* each input as often as it was sent, and nothing else.
C24_BatchPartition ==
    (BatchAnswered /\ response.status = 201) =>
        LET out == response.data
            N   == Len(response.files)
        IN  /\ out.summary.total = N
            /\ out.summary.successful + out.summary.failed = N
            /\ out.summary.successful = Len(out.uploaded)
            /\ out.summary.failed = Len(out.failed)
            /\ ListedNames(out.uploaded) \cup ListedNames(out.failed) = InputNames
            /\ \A name \in InputNames :
                 Named(out.uploaded, name) + Named(out.failed, name) = InputsNamed(name)
            /\ \A i \in 1..N :
                 Cardinality({ j \in 1..Len(out.uploaded) :
                                 out.uploaded[j].fileId = response.ids[i] }) <= 1

\* A batch of two files answered with one of them in each list.
C24_Witness ==
    /\ BatchAnswered
    /\ response.status = 201
    /\ Len(response.files) = 2
    /\ Len(response.data.uploaded) = 1
    /\ Len(response.data.failed) = 1

\* The inputs of the answered batch that are not in its uploaded list.
NotUploaded ==
    { i \in 1..Len(response.files) :
        \A j \in 1..Len(response.data.uploaded) :
            response.data.uploaded[j].fileId # response.ids[i] }

\* What C25 says of a batch apart from the records of its successes: it
\* answers 201 with every file processed, a file that fails validation or has
\* no record to show is among the failed ones, and those are named.
BatchGoesOn ==
    /\ response.status = 201
    /\ Len(response.data.uploaded) + Len(response.data.failed) = Len(response.files)
    /\ response.unlinked = 1..Len(response.files)
    /\ \A i \in 1..Len(response.files) :
         (\/ TypeMismatch(response.files[i])
          \/ ~hasFileMetadata(files, response.ids[i]) /\ response.ids[i] \notin metaDeleted)
            => i \in NotUploaded
    /\ Len(response.data.failed) = Cardinality(NotUploaded)
    /\ \A i \in NotUploaded :
         Named(response.data.failed, response.files[i].originalname) >= 1

\* C25 as stated: a failure of one file does not end the batch or undo the
\* others, and every file reported as uploaded has its record in the index
\* when the batch answers.
C25_BatchKeepsSuccesses ==
    BatchAnswered =>
        /\ BatchGoesOn
        /\ \A j \in 1..Len(response.data.uploaded) :
             hasFileMetadata(files, response.data.uploaded[j].fileId)

\* C25: a failure of one file does not end the batch or undo the others:
\* the batch answers 201 with every file processed, the failed entries name
\* the files that failed, and every file reported as uploaded has its record
\* in the index when the batch answers unless a deleteFile request has
\* removed that record in the meantime.
C25_BatchKeepsSuccessesUnlessDeleted ==
    BatchAnswered =>
        /\ BatchGoesOn
        /\ \A j \in 1..Len(response.data.uploaded) :
             \/ hasFileMetadata(files, response.data.uploaded[j].fileId)
             \/ response.data.uploaded[j].fileId \in metaDeleted

\* Three files of which the second fails validation: total 3, successful 2,
\* failed 1, the failed entry naming the second file, both others on record.
C25_Witness ==
    /\ BatchAnswered
    /\ Len(response.files) = 3
    /\ TypeMismatch(response.files[2])
    /\ response.data.summary = [total |-> 3, successful |-> 2, failed |-> 1]
    /\ response.data.failed[1].filename = response.files[2].originalname
    /\ hasFileMetadata(files, response.ids[1])
    /\ hasFileMetadata(files, response.ids[3])

\* C26: when a single or batch upload request answers, on whatever path,
\* fs.unlink has been called on the temp file of every input file.
C26_TempFilesRemoved ==
    response.kind \in Uploads => response.unlinked = 1..Len(response.files)

\* A single upload that fails after its metadata was saved, when the URL is
\* signed, and answers 500 with its temp file removed.
C26_Witness ==
    /\ response.kind = "uploadSingle"
    /\ response.status = 500
    /\ response.error.message = "Failed to generate access URL"
    /\ response.unlinked = {1}

\* ------------------------------------------------------------ lookups
\* The handlers that start by looking their fileId up in the index.
LookupKinds == { "getFile", "getFileMetadata", "deleteFile", "createShareableLink" }
\* The step is the start of a lookup request that answers at once.
AnswersAtOnce == response'.kind \in LookupKinds /\ started' # started

\* C27: a get, delete or share request for a fileId without a record answers
\* 404 `File not found` in the step that looked the record up, so before any
\* call on the object store, and that step leaves the index, the share logs
\* and the store as they were; only requests that found a record go on, and
\* nothing else answers 404.
C27_MissingIsNotFound ==
    [][ /\ \A r \in Reqs :
             (req[r].kind = "none" /\ req'[r].kind \in LookupKinds)
                => hasFileMetadata(files, req'[r].fileId)
        /\ (AnswersAtOnce /\ ~hasFileMetadata(files, response'.fileId))
             => /\ response'.status = 404
                /\ response'.error.message = "File not found"
                /\ req' = req
                /\ UNCHANGED << files, shareActivity, store, History >>
        /\ response'.status = 404
             => AnswersAtOnce /\ ~hasFileMetadata(files, response'.fileId)
      ]_vars

\* A deleteFile request for a file that an earlier request deleted: 404.
C27_Witness ==
    /\ response.kind = "deleteFile"
    /\ response.status = 404
    /\ response.fileId \in metaDeleted
    /\ response.fileId \in s3Deleted

\* The positions of the answered batch's inputs, in order.
InputOrder == [i \in 1..Len(response.files) |-> i]
\* The input position of an uploaded entry.
InputOf(entry) == CHOOSE i \in 1..Len(response.files) : response.ids[i] = entry.fileId
FailedInputs == SelectSeq(InputOrder, LAMBDA i : i \in NotUploaded)

\* C29: in the outcome of a batch both lists are in input order: the
\* uploaded entries are those of inputs at increasing positions, and the
\* failed entries name, one by one, the inputs that are not uploaded in the
\* order they were sent.
C29_ListsInInputOrder ==
    (BatchAnswered /\ response.status = 201) =>
        LET out == response.data
        IN  /\ \A j \in 1..Len(out.uploaded) :
                 /\ \E i \in 1..Len(response.files) : response.ids[i] = out.uploaded[j].fileId
                 /\ out.uploaded[j].filename = response.files[InputOf(out.uploaded[j])].originalname
            /\ \A j, k \in 1..Len(out.uploaded) :
                 j < k => InputOf(out.uploaded[j]) < InputOf(out.uploaded[k])
            /\ Len(out.failed) = Len(FailedInputs)
            /\ \A k \in 1..Len(out.failed) :
                 out.failed[k].filename = response.files[FailedInputs[k]].originalname

\* A batch of three files answered with two failed files of different names.
C29_Witness ==
    /\ BatchAnswered
    /\ Len(response.files) = 3
    /\ Len(response.data.failed) = 2
    /\ response.data.failed[1].filename # response.data.failed[2].filename
    /\ Len(response.data.uploaded) = 1

\* C30: of two concurrent deleteFile requests for the same fileId at most one
\* reports a successful deletion: a deleteFile request never answers 200 for
\* a fileId whose record an earlier request has already deleted.
C30_OneDeleteSucceeds ==
    [][ (response'.kind = "deleteFile" /\ response'.status = 200)
            => response'.fileId \notin metaDeleted ]_vars

\* ------------------------------------------------------------ readings
\* C28: what a listFiles or getUploadStats request answers is the listing
\* or the statistics of the index as it is at the instant of the answer,
\* whatever other requests are under way: the statistics count every record
\* of that index in the total and in one category, and the listing holds
\* records of that index with the values they have.
C28_ReadsOneInstant ==
    /\ response.kind = "getUploadStats" =>
         /\ response.status = 200
         /\ response.data = getUploadStats(files, now)
         /\ response.data.overview.totalFiles = Len(files)
         /\ SumOver(DOMAIN response.data.distribution.byType,
                    response.data.distribution.byType) = Len(files)
         /\ SumOver(DOMAIN response.data.distribution.storageByType,
                    response.data.distribution.storageByType)
              = response.data.overview.totalSize
    /\ response.kind = "listFiles" =>
         LET query == response.query
             data  == response.data
         IN  /\ response.status = 200
             /\ data = ListData(listFiles(files, OptionsPage(query), OptionsLimit(query),
                                          OptionsFilter(query.type),
                                          OptionsFilter(query.search)))
             /\ data.pagination.total <= Len(files)
             /\ (query.type = Undefined /\ query.search = Undefined)
                  => data.pagination.total = Len(files)
             /\ \A i \in 1..Len(data.files) :
                  /\ hasFileMetadata(files, data.files[i].fileId)
                  /\ data.files[i] = ListItem(getFileMetadata(files, data.files[i].fileId))

\* Statistics answered while a deleteFile request for the only record has
\* deleted the object and not yet the record: the record is still counted,
\* in the total and in its category.
C28_Witness ==
    /\ response.kind = "getUploadStats"
    /\ response.data.overview.totalFiles = 1
    /\ Cardinality(DOMAIN response.data.distribution.byType) = 1
    /\ \E r \in Reqs : req[r].pc = "delete_meta"

\* ------------------------------------------------------------ accesses
\* The step answers a getFile request for fileId with its URL.
GetFileSucceeds(fileId) ==
    response'.kind = "getFile" /\ response'.status = 200 /\ response'.fileId = fileId

\* C31: a record starts with accessCount 0, and the accessCount of a record
\* goes up by one in a step that answers a getFile request for its fileId
\* with a signed URL and stays as it is in every other step (a getFile whose
\* signing failed, a metadata read, a listing, statistics, a share link), so
\* that it is the number of getFile requests that succeeded on the record.
C31_AccessCountCountsGetFiles ==
    [][ \A fileId \in FileIds :
          /\ (hasFileMetadata(files, fileId) /\ hasFileMetadata(files', fileId))
               => getFileMetadata(files', fileId).accessCount =
                     getFileMetadata(files, fileId).accessCount
                        + (IF GetFileSucceeds(fileId) THEN 1 ELSE 0)
          /\ (~hasFileMetadata(files, fileId) /\ hasFileMetadata(files', fileId))
               => getFileMetadata(files', fileId).accessCount = 0
          /\ accessCalls'[fileId] =
               accessCalls[fileId] + (IF GetFileSucceeds(fileId) THEN 1 ELSE 0)
          /\ hasFileMetadata(files', fileId)
               => getFileMetadata(files', fileId).accessCount = accessCalls'[fileId]
      ]_vars

\* A getFile request whose signing failed answers 500 for a record on which
\* one earlier getFile request has succeeded: its accessCount is still 1.
C31_Witness ==
    /\ response.kind = "getFile"
    /\ response.status = 500
    /\ hasFileMetadata(files, response.fileId)
    /\ getFileMetadata(files, response.fileId).accessCount = 1

\* ------------------------------------------------------------ keys
\* C32: two records of the index never have the same s3Key, and a step that
\* deletes an object from the store for one file leaves the object of every
\* other record in the index where it is.
C32_DistinctKeys ==
    [][ /\ \A i, j \in 1..Len(files') :
             i # j => files'[i][2].s3Key # files'[j][2].s3Key
        /\ \A fileId \in s3Deleted' \ s3Deleted :
             \A i \in 1..Len(files) :
                 (files[i][1] # fileId /\ files[i][2].s3Key \in StoreKeys(store))
                    => files[i][2].s3Key \in StoreKeys(store')
      ]_vars

\* Two files were uploaded and the object of one has been deleted: the
\* other file's record is in the index and its object is in the store.
C32_Witness ==
    /\ s3Deleted # {}
    /\ \E i \in 1..Len(files) :
         /\ files[i][1] \notin s3Deleted
         /\ files[i][2].s3Key \in StoreKeys(store)

\* ------------------------------------------------------------ reads
ReadOps == { "getFileMetadata", "listFiles", "getUploadStats", "exportData" }
\* The step is a call of an operation that only reads, or a step of a
\* request for a presigned upload URL (its start, which moves the clock, or
\* its answer).
ReadStep ==
    \/ now' = now /\ \E op \in ReadOps : IsCall(op)
    \/ now' # now /\ started' # started
    \/ \E r \in Reqs : req[r].kind = "getPresignedUrl" /\ req'[r] # req[r]

\* C33: getFileMetadata, listFiles, getUploadStats, exportData and the
\* request for a presigned upload URL leave the files map and the share
\* activity map as they were: the same keys in the same order with the same
\* values.
C33_ReadsChangeNothing ==
    [][ ReadStep => (files' = files /\ shareActivity' = shareActivity) ]_vars

\* exportData has returned the entries of an index that holds a record
\* accessed once and a share log, and the index still holds them.
C33_Witness ==
    /\ call.op = "exportData"
    /\ call.exported.files = files
    /\ call.exported.shareActivity = shareActivity
    /\ Len(shareActivity) = 1
    /\ \E i \in 1..Len(files) : files[i][2].accessCount = 1

=============================================================================
